---- MODULE Spec2Model ----
(***************************************************************************)
(* The onboarding wizard of quixess-onboarding-modal                       *)
(* (src/components/OnboardingModal.jsx): the field validators, the state   *)
(* kept by the useOnboardingForm hook, and the open / close / submit       *)
(* handlers of the OnboardingModal component.                              *)
(*                                                                         *)
(* Text values are sequences of one-character strings, so that trim(),     *)
(* length and the two regular expressions are computed character by        *)
(* character.  JavaScript's null is the value Null; a key of the errors    *)
(* object is either absent, present with Null, or present with a message.  *)
(*                                                                         *)
(* A handler runs to completion before the next event is handled and React *)
(* re-renders between events, so each handler is one action.  The only     *)
(* suspension point is the await of line 114: handleSubmit is split in the *)
(* part before it and the part after it.  inFlight counts the awaited       *)
(* operations; stale counts those of them whose handleSubmit was started   *)
(* in a session that has been closed since.                                *)
(***************************************************************************)
EXTENDS Integers, Sequences, FiniteSets, TLC

VARIABLES formData, errors, currentStep, isSubmitting, isOpen, inFlight, returned, stale

vars == <<formData, errors, currentStep, isSubmitting, isOpen, inFlight, returned, stale>>

(* ---------------------------------------------------------------------- *)
(* Bounds                                                                  *)
(* ---------------------------------------------------------------------- *)

\* Largest number of finalize operations that may be awaited at once.
MaxInFlight == 2

\* Longest text given to the validators in ValidatorSpec.
MaxTextLen == 6

(* ---------------------------------------------------------------------- *)
(* Characters and strings                                                  *)
(* ---------------------------------------------------------------------- *)

Null == "null"

WhiteSpace == {" "}

\* The characters matched by [a-zA-Z0-9_] among those the model uses.
WordChars == {"a", "b", "c", "J", "o", "j", "x", "1", "2", "3", "4", "5", "6", "_"}

RECURSIVE trimStart(_)
trimStart(s) ==
    IF s # <<>> /\ Head(s) \in WhiteSpace THEN trimStart(Tail(s)) ELSE s

RECURSIVE trimEnd(_)
trimEnd(s) ==
    IF s # <<>> /\ s[Len(s)] \in WhiteSpace
    THEN trimEnd(SubSeq(s, 1, Len(s) - 1))
    ELSE s

trim(s) == trimEnd(trimStart(s))

\* [^\s@]
NonSpaceNonAt(c) == c \notin WhiteSpace /\ c # "@"

\* /^[^\s@]+@[^\s@]+\.[^\s@]+$/.test(s)
emailRegex(s) ==
    \E i \in 1..Len(s), j \in 1..Len(s) :
        /\ 1 < i /\ i + 1 < j /\ j < Len(s)
        /\ s[i] = "@"
        /\ s[j] = "."
        /\ \A k \in (1..Len(s)) \ {i} : NonSpaceNonAt(s[k])

\* /^[a-zA-Z0-9_]+$/.test(s)
usernameRegex(s) ==
    /\ Len(s) >= 1
    /\ \A k \in 1..Len(s) : s[k] \in WordChars

(* ---------------------------------------------------------------------- *)
(* validation                                                              *)
(* ---------------------------------------------------------------------- *)

validateEmail(email) ==
    IF trim(email) = <<>> THEN "Email is required"
    ELSE IF emailRegex(email) THEN Null
    ELSE "Please enter a valid email address"

validateFullName(name) ==
    IF trim(name) = <<>> THEN "Full name is required"
    ELSE IF Len(trim(name)) < 2 THEN "Name must be at least 2 characters"
    ELSE Null

\* validateUsername with the length taken after trim().
validateUsername_TrimmedLength(username) ==
    IF trim(username) = <<>> THEN "Username is required"
    ELSE IF Len(trim(username)) < 3 THEN "Username must be at least 3 characters"
    ELSE IF ~usernameRegex(username)
         THEN "Username can only contain letters, numbers, and underscores"
    ELSE Null

validateUsername(username) ==
    IF trim(username) = <<>> THEN "Username is required"
    ELSE IF Len(username) < 3 THEN "Username must be at least 3 characters"
    ELSE IF ~usernameRegex(username)
         THEN "Username can only contain letters, numbers, and underscores"
    ELSE Null

validatePassword(password) ==
    IF trim(password) = <<>> THEN "Password is required"
    ELSE IF Len(password) < 6 THEN "Password must be at least 6 characters"
    ELSE Null

validateTheme(theme) ==
    IF theme = "" THEN "Please select a theme" ELSE Null

(* ---------------------------------------------------------------------- *)
(* The values the fields take in the model: for each field its initial     *)
(* value, a value its validator refuses and a value it accepts              *)
(* ---------------------------------------------------------------------- *)

Fields == {"fullName", "email", "username", "password", "theme", "newsletter"}

FullNames == { <<>>, <<" ">>, <<"J", "o">> }

Emails == { <<>>, <<"j", "@", "x">>, <<"j", "@", "x", ".", "c">> }

Usernames == { <<>>, <<"a", "b">>, <<"a", "b", "c">> }

Passwords == { <<>>, <<"1", "2", "3", "4", "5">>, <<"1", "2", "3", "4", "5", "6">> }

\* "" and one of the two option values, which the code treats alike.
Themes == {"", "Dark"}

FieldValues(field) ==
    CASE field = "fullName" -> FullNames
      [] field = "email" -> Emails
      [] field = "username" -> Usernames
      [] field = "password" -> Passwords
      [] field = "theme" -> Themes
      [] field = "newsletter" -> BOOLEAN

(* ---------------------------------------------------------------------- *)
(* useOnboardingForm                                                       *)
(* ---------------------------------------------------------------------- *)

InitialFormData ==
    [fullName |-> <<>>, email |-> <<>>, username |-> <<>>,
     password |-> <<>>, theme |-> "", newsletter |-> FALSE]

\* The object {} .
EmptyErrors == [f \in {} |-> Null]

\* if (errors[field]) : the key is present with a non-empty message.
hasError(errs, field) == field \in DOMAIN errs /\ errs[field] # Null

\* setErrors({ [field]: null }) : the spread of prev forgotten.
clearError_DropsOthers(prev, field) == [f \in {field} |-> Null]

\* { ...prev, [field]: null }
clearError(prev, field) ==
    [f \in (DOMAIN prev) \cup {field} |-> IF f = field THEN Null ELSE prev[f]]

\* validateStep without the email line of case 1.
newErrors_SkipsEmail(step, data) ==
    CASE step = 1 -> [fullName |-> validateFullName(data.fullName)]
      [] step = 2 -> [username |-> validateUsername(data.username),
                      password |-> validatePassword(data.password)]
      [] step = 3 -> [theme |-> validateTheme(data.theme)]
      [] OTHER -> EmptyErrors

\* validateStep with a required newsletter at step 3.
newErrors_ValidatesNewsletter(step, data) ==
    CASE step = 1 -> [fullName |-> validateFullName(data.fullName),
                      email |-> validateEmail(data.email)]
      [] step = 2 -> [username |-> validateUsername(data.username),
                      password |-> validatePassword(data.password)]
      [] step = 3 -> [theme |-> validateTheme(data.theme),
                      newsletter |-> IF data.newsletter THEN Null
                                     ELSE "Please accept the newsletter"]
      [] OTHER -> EmptyErrors

\* The object newErrors built by the switch of validateStep.
newErrors(step, data) ==
    CASE step = 1 -> [fullName |-> validateFullName(data.fullName),
                      email |-> validateEmail(data.email)]
      [] step = 2 -> [username |-> validateUsername(data.username),
                      password |-> validatePassword(data.password)]
      [] step = 3 -> [theme |-> validateTheme(data.theme)]
      [] OTHER -> EmptyErrors

\* validateStep with setErrors(prev => ({ ...prev, ...filteredErrors })).
filteredErrors_Merged(step, data) ==
    LET new == newErrors(step, data)
        failing == {g \in DOMAIN new : new[g] # Null}
    IN  [f \in (DOMAIN errors) \cup failing |->
            IF f \in failing THEN new[f] ELSE errors[f]]

\* Object.fromEntries(Object.entries(newErrors).filter(([, e]) => e !== null))
filteredErrors(step, data) ==
    LET new == newErrors(step, data)
    IN  [f \in {g \in DOMAIN new : new[g] # Null} |-> new[f]]

\* The value validateStep returns; it also stores filteredErrors in errors.
validateStep(step, data) == DOMAIN filteredErrors(step, data) = {}

Min(a, b) == IF a < b THEN a ELSE b

Max(a, b) == IF a > b THEN a ELSE b

Init ==
    /\ formData = InitialFormData
    /\ errors = EmptyErrors
    /\ currentStep = 1
    /\ isSubmitting = FALSE
    /\ isOpen = FALSE
    /\ inFlight = 0
    /\ returned = "none"
    /\ stale = 0

\* updateField without setErrors.
updateField_KeepsError(field, value) ==
    /\ formData' = [formData EXCEPT ![field] = value]
    /\ UNCHANGED <<errors, currentStep, isSubmitting, isOpen, inFlight, returned, stale>>

\* updateField without the test of errors[field].
updateField_AlwaysClears(field, value) ==
    /\ formData' = [formData EXCEPT ![field] = value]
    /\ errors' = clearError(errors, field)
    /\ UNCHANGED <<currentStep, isSubmitting, isOpen, inFlight, returned, stale>>

updateField(field, value) ==
    /\ formData' = [formData EXCEPT ![field] = value]
    /\ errors' = IF hasError(errors, field) THEN clearError(errors, field) ELSE errors
    /\ UNCHANGED <<currentStep, isSubmitting, isOpen, inFlight, returned, stale>>

\* goToNextStep going straight to the last step.
goToNextStep_SkipsAhead ==
    /\ errors' = filteredErrors(currentStep, formData)
    /\ currentStep' = IF validateStep(currentStep, formData)
                      THEN 3
                      ELSE currentStep
    /\ UNCHANGED <<formData, isSubmitting, isOpen, inFlight, returned, stale>>

\* goToNextStep without the test of validateStep's result.
goToNextStep_Ungated ==
    /\ errors' = filteredErrors(currentStep, formData)
    /\ currentStep' = Min(currentStep + 1, 3)
    /\ UNCHANGED <<formData, isSubmitting, isOpen, inFlight, returned, stale>>

\* goToNextStep without Math.min.
goToNextStep_NoClamp ==
    /\ errors' = filteredErrors(currentStep, formData)
    /\ currentStep' = IF validateStep(currentStep, formData)
                      THEN currentStep + 1
                      ELSE currentStep
    /\ UNCHANGED <<formData, isSubmitting, isOpen, inFlight, returned, stale>>

goToNextStep ==
    /\ errors' = filteredErrors(currentStep, formData)
    /\ currentStep' = IF validateStep(currentStep, formData)
                      THEN Min(currentStep + 1, 3)
                      ELSE currentStep
    /\ UNCHANGED <<formData, isSubmitting, isOpen, inFlight, returned, stale>>

\* goToPreviousStep without setErrors({}).
goToPreviousStep_KeepsErrors ==
    /\ currentStep' = Max(currentStep - 1, 1)
    /\ UNCHANGED <<formData, errors, isSubmitting, isOpen, inFlight, returned, stale>>

goToPreviousStep ==
    /\ currentStep' = Max(currentStep - 1, 1)
    /\ errors' = EmptyErrors
    /\ UNCHANGED <<formData, isSubmitting, isOpen, inFlight, returned, stale>>

\* The four state setters of resetForm.
resetState ==
    /\ formData' = InitialFormData
    /\ errors' = EmptyErrors
    /\ currentStep' = 1
    /\ isSubmitting' = FALSE

\* resetForm without setCurrentStep(1).
resetForm_KeepsStep ==
    /\ formData' = InitialFormData
    /\ errors' = EmptyErrors
    /\ isSubmitting' = FALSE
    /\ UNCHANGED <<currentStep, isOpen, inFlight, returned, stale>>

resetForm ==
    /\ resetState
    /\ UNCHANGED <<isOpen, inFlight, returned, stale>>

(* ---------------------------------------------------------------------- *)
(* OnboardingModal                                                         *)
(* ---------------------------------------------------------------------- *)

\* The wizard's controls exist only while the modal is rendered (line 620);
\* handleKeyDown returns at once when it is not (line 590).
modalRendered == isOpen

UpdateField ==
    /\ modalRendered
    /\ \E field \in Fields : \E value \in FieldValues(field) : updateField(field, value)

GoToNextStep == modalRendered /\ goToNextStep

GoToPreviousStep == modalRendered /\ goToPreviousStep

ResetForm == modalRendered /\ resetForm

\* handleOpenModal with a reset that leaves out setCurrentStep(1).
handleOpenModal_KeepsStep ==
    /\ isOpen' = TRUE
    /\ formData' = InitialFormData
    /\ errors' = EmptyErrors
    /\ isSubmitting' = FALSE
    /\ UNCHANGED <<currentStep, inFlight, returned, stale>>

handleOpenModal ==
    /\ isOpen' = TRUE
    /\ resetState
    /\ UNCHANGED <<inFlight, returned, stale>>

\* hasData without trim().
hasData_NoTrim(data) ==
    \/ data.fullName # <<>>
    \/ data.email # <<>>
    \/ data.username # <<>>
    \/ data.password # <<>>
    \/ data.theme # ""
    \/ data.newsletter

\* Object.values(formData).some(v => typeof v === 'string' ? v.trim() : v)
\* The theme is "" or one of the option values, which hold no white space.
hasData(data) ==
    \/ trim(data.fullName) # <<>>
    \/ trim(data.email) # <<>>
    \/ trim(data.username) # <<>>
    \/ trim(data.password) # <<>>
    \/ data.theme # ""
    \/ data.newsletter

\* hasData && !window.confirm(...) : window.confirm is called exactly when
\* hasData is true (line 570).
confirmRequested(data) == hasData(data)

\* handleCloseModal without the early return on a declined confirmation.
handleCloseModal_IgnoresAnswer(confirm) ==
    /\ isOpen' = FALSE
    /\ resetState
    /\ stale' = inFlight
    /\ UNCHANGED <<inFlight, returned>>

\* confirm is the answer window.confirm gives if it is asked.
handleCloseModal(confirm) ==
    IF confirmRequested(formData) /\ ~confirm
    THEN UNCHANGED vars
    ELSE /\ isOpen' = FALSE
         /\ resetState
         /\ stale' = inFlight
         /\ UNCHANGED <<inFlight, returned>>

HandleCloseModal ==
    /\ modalRendered
    /\ \E confirm \in BOOLEAN : handleCloseModal(confirm)

\* The submit button without disabled={isSubmitting}.
submitEnabled_Always == modalRendered

\* The submit button is disabled while isSubmitting (line 705).
submitEnabled == modalRendered /\ ~isSubmitting

\* submitForm with setIsSubmitting(true) ahead of the validation.
handleSubmitInvalid_SetsSubmitting ==
    /\ submitEnabled
    /\ ~validateStep(3, formData)
    /\ errors' = filteredErrors(3, formData)
    /\ isSubmitting' = TRUE
    /\ returned' = "false"
    /\ UNCHANGED <<formData, currentStep, isOpen, inFlight, stale>>

\* handleSubmit when validateStep(3) fails: submitForm returns false at
\* line 108 and handleSubmit takes its else branch.
handleSubmitInvalid ==
    /\ submitEnabled
    /\ ~validateStep(3, formData)
    /\ errors' = filteredErrors(3, formData)
    /\ returned' = "false"
    /\ UNCHANGED <<formData, currentStep, isSubmitting, isOpen, inFlight, stale>>

\* submitForm without setIsSubmitting(true).
handleSubmitStart_NoStatus ==
    /\ submitEnabled
    /\ inFlight < MaxInFlight
    /\ validateStep(3, formData)
    /\ errors' = filteredErrors(3, formData)
    /\ inFlight' = inFlight + 1
    /\ UNCHANGED <<formData, currentStep, isSubmitting, isOpen, returned, stale>>

\* handleSubmit up to the await of line 114.
handleSubmitStart ==
    /\ submitEnabled
    /\ inFlight < MaxInFlight
    /\ validateStep(3, formData)
    /\ errors' = filteredErrors(3, formData)
    /\ isSubmitting' = TRUE
    /\ inFlight' = inFlight + 1
    /\ UNCHANGED <<formData, currentStep, isOpen, returned, stale>>

\* handleSubmit's success branch without resetForm().
finalizeResolved_NoReset ==
    /\ inFlight > 0
    /\ inFlight' = inFlight - 1
    /\ returned' = "true"
    /\ isOpen' = FALSE
    /\ stale' = inFlight - 1
    /\ isSubmitting' = FALSE
    /\ UNCHANGED <<formData, errors, currentStep>>

\* The awaited operation resolves: return true, finally, then the success
\* branch of handleSubmit.
finalizeResolved ==
    /\ inFlight > 0
    /\ inFlight' = inFlight - 1
    /\ returned' = "true"
    /\ isOpen' = FALSE
    /\ stale' = inFlight - 1
    /\ resetState

\* The operation that settles is one of an earlier session or one of this
\* session.
completesOne ==
    \/ stale > 0 /\ stale' = stale - 1
    \/ inFlight > stale /\ stale' = stale

\* submitForm without the finally block on the catch path.
finalizeRejected_NoFinally ==
    /\ inFlight > 0
    /\ inFlight' = inFlight - 1
    /\ returned' = "false"
    /\ completesOne
    /\ UNCHANGED <<formData, errors, currentStep, isSubmitting, isOpen>>

\* handleSubmit closing and resetting whatever submitForm returned.
finalizeRejected_Resets ==
    /\ inFlight > 0
    /\ inFlight' = inFlight - 1
    /\ returned' = "false"
    /\ isOpen' = FALSE
    /\ stale' = inFlight - 1
    /\ resetState

\* The awaited operation rejects: catch, return false, finally, then the
\* else branch of handleSubmit.
finalizeRejected ==
    /\ inFlight > 0
    /\ inFlight' = inFlight - 1
    /\ returned' = "false"
    /\ isSubmitting' = FALSE
    /\ completesOne
    /\ UNCHANGED <<formData, errors, currentStep, isOpen>>

Next ==
    \/ UpdateField
    \/ GoToNextStep
    \/ GoToPreviousStep
    \/ ResetForm
    \/ handleOpenModal
    \/ HandleCloseModal
    \/ handleSubmitInvalid
    \/ handleSubmitStart
    \/ finalizeResolved
    \/ finalizeRejected

Spec == Init /\ [][Next]_vars

TypeOK ==
    /\ \A f \in Fields : formData[f] \in FieldValues(f)
    /\ DOMAIN errors \subseteq Fields
    /\ currentStep \in 1..3
    /\ isSubmitting \in BOOLEAN
    /\ isOpen \in BOOLEAN
    /\ inFlight \in 0..MaxInFlight
    /\ returned \in {"none", "true", "false"}
    /\ stale \in 0..inFlight
    /\ ~isOpen => stale = inFlight

\* Every started finalize operation eventually completes.
LiveSpec == Spec /\ WF_vars(finalizeResolved \/ finalizeRejected)

(* ---------------------------------------------------------------------- *)
(* The wizard as the rendered component drives it                          *)
(* ---------------------------------------------------------------------- *)

\* The inputs each step component renders: PersonalInfoStep,
\* AccountSetupStep, PreferencesStep.
StepInputs(step) ==
    CASE step = 1 -> {"fullName", "email"}
      [] step = 2 -> {"username", "password"}
      [] step = 3 -> {"theme", "newsletter"}

\* The theme cards only offer the option values.
InputValues(field) ==
    IF field = "theme" THEN Themes \ {""} ELSE FieldValues(field)

ChangeInput ==
    /\ modalRendered
    /\ \E field \in StepInputs(currentStep) : \E value \in InputValues(field) :
          updateField(field, value)

\* The Next button is rendered, and ArrowRight is handled, below step 3.
ClickNext == modalRendered /\ currentStep < 3 /\ goToNextStep

\* The Back button is enabled, and ArrowLeft is handled, above step 1.
ClickBack == modalRendered /\ currentStep > 1 /\ goToPreviousStep

\* The submit button is rendered at step 3.
ClickSubmitInvalid == currentStep = 3 /\ handleSubmitInvalid

ClickSubmit == currentStep = 3 /\ handleSubmitStart

NextUI ==
    \/ ChangeInput
    \/ ClickNext
    \/ ClickBack
    \/ handleOpenModal
    \/ HandleCloseModal
    \/ ClickSubmitInvalid
    \/ ClickSubmit
    \/ finalizeResolved
    \/ finalizeRejected

SpecUI == Init /\ [][NextUI]_vars

(* ---------------------------------------------------------------------- *)
(* The validators applied to every short text                              *)
(* ---------------------------------------------------------------------- *)

\* A white-space character, a word character and a character that is
\* neither.
TextAlphabet == {" ", "a", "-"}

Texts == UNION {[1..n -> TextAlphabet] : n \in 0..MaxTextLen}

\* An open wizard at step 1 or 2 whose four text inputs hold the same text.
InitValidators ==
    /\ formData \in {[InitialFormData EXCEPT !.fullName = t, !.email = t,
                                             !.username = t, !.password = t] :
                     t \in Texts}
    /\ errors = EmptyErrors
    /\ currentStep \in {1, 2}
    /\ isSubmitting = FALSE
    /\ isOpen = TRUE
    /\ inFlight = 0
    /\ returned = "none"
    /\ stale = 0

\* The validators are applied by the validateStep of goToNextStep.
NextValidators == GoToNextStep

ValidatorSpec == InitValidators /\ [][NextValidators]_vars

(* ---------------------------------------------------------------------- *)
(* The step table and the outcome of a field's validator, as the design    *)
(* states them; the properties below are phrased with these.               *)
(* ---------------------------------------------------------------------- *)

StepFields(step) ==
    CASE step = 1 -> {"fullName", "email"}
      [] step = 2 -> {"username", "password"}
      [] step = 3 -> {"theme"}

FieldError(field, data) ==
    CASE field = "fullName" -> validateFullName(data.fullName)
      [] field = "email" -> validateEmail(data.email)
      [] field = "username" -> validateUsername(data.username)
      [] field = "password" -> validatePassword(data.password)
      [] field = "theme" -> validateTheme(data.theme)
      [] field = "newsletter" -> Null

FailingFields(step, data) == {f \in StepFields(step) : FieldError(f, data) # Null}

StepPasses(step, data) == FailingFields(step, data) = {}

FailingMessages(step, data) ==
    [f \in FailingFields(step, data) |-> FieldError(f, data)]

InitialTuple(data, errs, step, submitting) ==
    /\ data = InitialFormData
    /\ DOMAIN errs = {}
    /\ step = 1
    /\ submitting = FALSE

(* ---------------------------------------------------------------------- *)
(* Properties                                                              *)
(* ---------------------------------------------------------------------- *)

\* C1: goToNextStep changes currentStep only when the current step's
\* validators all pass; when one fails, currentStep is unchanged and the
\* errors afterwards are exactly the failing validators' messages of that
\* step.
C1_NextStepGated ==
    [][GoToNextStep =>
        /\ (currentStep' # currentStep) => StepPasses(currentStep, formData)
        /\ ~StepPasses(currentStep, formData) =>
              /\ currentStep' = currentStep
              /\ errors' = FailingMessages(currentStep, formData)]_vars

\* Scenario C: step 2 refused with only the username message recorded.
C1_Witness ==
    /\ currentStep = 2
    /\ formData.username = <<"a", "b">>
    /\ formData.password = <<"1", "2", "3", "4", "5", "6">>
    /\ errors = [username |-> "Username must be at least 3 characters"]

\* C2: a submit request made while no theme is selected returns false, does
\* not set isSubmitting, invokes no finalize operation and leaves the errors
\* equal to {theme: "Please select a theme"}.
C2_SubmitInvalid ==
    [][((handleSubmitInvalid \/ handleSubmitStart) /\ formData.theme = "") =>
        /\ returned' = "false"
        /\ isSubmitting = FALSE
        /\ isSubmitting' = FALSE
        /\ inFlight' = inFlight
        /\ errors' = [theme |-> "Please select a theme"]]_vars

C2_Witness ==
    /\ returned = "false"
    /\ formData.theme = ""
    /\ errors = [theme |-> "Please select a theme"]
    /\ ~isSubmitting
    /\ inFlight = 0

\* C3: a submit request that passes step-3 validation invokes the finalize
\* operation once, with isSubmitting going from false to true in that step;
\* the completion of the operation ends that one invocation (no retry),
\* sets isSubmitting to false and makes submitForm return; the return value
\* is true when the operation resolved.  isSubmitting is never true without
\* a finalize operation outstanding.
C3_SubmitLifecycle ==
    /\ [](isSubmitting => inFlight > 0)
    /\ [][/\ handleSubmitStart =>
                /\ StepPasses(3, formData)
                /\ ~isSubmitting /\ isSubmitting'
                /\ inFlight' = inFlight + 1
                /\ returned' = returned
          /\ (isSubmitting' /\ ~isSubmitting) => inFlight' = inFlight + 1
          /\ (inFlight' # inFlight) =>
                \/ inFlight' = inFlight + 1 /\ isSubmitting'
                \/ inFlight' = inFlight - 1 /\ ~isSubmitting' /\ returned' \in {"true", "false"}
          /\ finalizeResolved => (inFlight' = inFlight - 1 /\ returned' = "true")
          /\ finalizeRejected => (inFlight' = inFlight - 1 /\ returned' = "false")]_vars

C3_Witness ==
    /\ returned = "true"
    /\ ~isSubmitting
    /\ inFlight = 0

\* C4: whenever isSubmitting is true it is eventually false again, given
\* that every started finalize operation completes.
C4_SubmittingEnds == isSubmitting ~> ~isSubmitting

C4_Witness ==
    /\ isSubmitting
    /\ inFlight = 1
    /\ returned = "none"

\* C5: when the finalize operation rejects, submitForm returns false,
\* isSubmitting is false afterwards, and neither the start of the submit nor
\* its failed completion changes formData, currentStep or isOpen.
C5_FailedSubmitKeepsSession ==
    [][/\ finalizeRejected =>
             /\ returned' = "false"
             /\ ~isSubmitting'
             /\ UNCHANGED <<formData, currentStep, isOpen>>
       /\ handleSubmitStart => UNCHANGED <<formData, currentStep, isOpen>>]_vars

\* A rejected submit at step 3 of an open, filled-in form.
C5_Witness ==
    /\ returned = "false"
    /\ isOpen
    /\ currentStep = 3
    /\ formData.theme = "Dark"
    /\ formData.fullName = <<"J", "o">>
    /\ DOMAIN errors = {}
    /\ ~isSubmitting
    /\ inFlight = 0

\* C6: a key is in errors only if that field's validator fails on the
\* field's current value, and no key is mapped to null.
C6_ErrorMapInvariant ==
    \A f \in DOMAIN errors :
        /\ errors[f] # Null
        /\ FieldError(f, formData) # Null

\* C7: a finalize operation is invoked only in a state where isSubmitting is
\* false.
C7_NoReentrantSubmit ==
    [][(inFlight' > inFlight) => ~isSubmitting]_vars

\* A submit request would pass validation but the button is disabled.
C7_Witness ==
    /\ isSubmitting
    /\ isOpen
    /\ inFlight = 1
    /\ StepPasses(3, formData)

\* C8: goToPreviousStep can be taken whatever the fields hold, sets
\* currentStep to currentStep - 1 but not below 1, and leaves errors empty.
C8_PreviousStep ==
    /\ [](modalRendered => ENABLED GoToPreviousStep)
    /\ [][GoToPreviousStep =>
            /\ currentStep' = (IF currentStep = 1 THEN 1 ELSE currentStep - 1)
            /\ DOMAIN errors' = {}]_vars

\* Back at step 1 from a step 2 whose fields do not validate.
C8_Witness ==
    /\ currentStep = 1
    /\ DOMAIN errors = {}
    /\ StepPasses(1, formData)
    /\ ~StepPasses(2, formData)
    /\ formData.username # <<>>

\* C9: currentStep is always 1, 2 or 3, and goToNextStep at step 3 with a
\* valid theme leaves it at 3.
C9_StepInRange ==
    /\ [](currentStep \in {1, 2, 3})
    /\ [][(GoToNextStep /\ currentStep = 3 /\ StepPasses(3, formData)) =>
            currentStep' = 3]_vars

C9_Witness ==
    /\ currentStep = 3
    /\ StepPasses(3, formData)
    /\ DOMAIN errors = {}
    /\ returned = "none"

\* C10: a close request on a form with data whose confirmation is declined
\* changes nothing; every other close request leaves the modal not open and
\* the form state equal to the initial tuple.
C10_CloseModal ==
    [][\A confirm \in BOOLEAN :
        (modalRendered /\ handleCloseModal(confirm)) =>
            IF hasData(formData) /\ ~confirm
            THEN UNCHANGED <<isOpen, formData, errors, currentStep, isSubmitting>>
            ELSE /\ ~isOpen'
                 /\ InitialTuple(formData', errors', currentStep', isSubmitting')]_vars

\* A session closed after a failed submit.
C10_Witness ==
    /\ ~isOpen
    /\ returned = "false"
    /\ InitialTuple(formData, errors, currentStep, isSubmitting)

\* The text fields of formData.
TextFields == {"fullName", "email", "username", "password"}

\* A text holds a character that is not white space.
HasVisibleChar(text) == \E k \in 1..Len(text) : text[k] \notin WhiteSpace

\* formData with the newsletter choice inverted.
FlipNewsletter(data) == [data EXCEPT !.newsletter = ~data.newsletter]

\* C11 as stated: a close request asks for confirmation exactly when some
\* field holds a value other than its initial one.
C11_ConfirmIffNonInitial ==
    confirmRequested(formData) <=> (formData # InitialFormData)

\* C11 as amended: a close request asks for confirmation exactly when some
\* text field holds a character that is not white space, a theme is
\* selected or newsletter is true; it never asks when every field holds its
\* initial value, and a declined confirmation keeps such data.
C11_ConfirmIffVisibleData ==
    /\ [](confirmRequested(formData) <=>
            \/ \E f \in TextFields : HasVisibleChar(formData[f])
            \/ formData.theme # ""
            \/ formData.newsletter)
    /\ []((formData = InitialFormData) => ~confirmRequested(formData))
    /\ [][(modalRendered /\ handleCloseModal(FALSE)
            /\ (\/ \E f \in TextFields : HasVisibleChar(formData[f])
                \/ formData.theme # ""
                \/ formData.newsletter))
          => formData' = formData]_vars

\* An open form whose only entry is a blank full name: no confirmation.
C11_Witness ==
    /\ isOpen
    /\ formData = [InitialFormData EXCEPT !.fullName = <<" ">>]
    /\ ~confirmRequested(formData)

\* C12: resetForm yields the initial tuple from any state, and yields the
\* same state when applied to a state it has produced.
C12_ResetForm ==
    [][ResetForm =>
        /\ formData' = InitialFormData
        /\ DOMAIN errors' = {}
        /\ currentStep' = 1
        /\ isSubmitting' = FALSE
        /\ UNCHANGED <<isOpen, inFlight, returned>>
        /\ InitialTuple(formData, errors, currentStep, isSubmitting) => UNCHANGED vars]_vars

\* An open form back at the initial tuple after a failed submit.
C12_Witness ==
    /\ isOpen
    /\ returned = "false"
    /\ inFlight = 0
    /\ InitialTuple(formData, errors, currentStep, isSubmitting)

C14_ValidateStepReplaces ==
    [][/\ GoToNextStep =>
            /\ errors' = FailingMessages(currentStep, formData)
            /\ (currentStep < 3) =>
                  ((currentStep' = currentStep + 1) <=> (DOMAIN errors' = {}))
       /\ handleSubmitInvalid =>
            /\ errors' = FailingMessages(3, formData)
            /\ DOMAIN errors' # {}
       /\ handleSubmitStart =>
            /\ errors' = FailingMessages(3, formData)
            /\ DOMAIN errors' = {}]_vars

\* Step 3 validated by a submit request made at step 1, whose own fields
\* do not validate.
C14_Witness ==
    /\ currentStep = 1
    /\ ~StepPasses(1, formData)
    /\ errors = [theme |-> "Please select a theme"]

\* C15: when the finalize operation resolves, submitForm returns true, the
\* modal is closed and the form state is the initial tuple.
C15_SuccessfulSubmitResets ==
    [][finalizeResolved =>
        /\ returned' = "true"
        /\ ~isOpen'
        /\ formData' = InitialFormData
        /\ DOMAIN errors' = {}
        /\ currentStep' = 1
        /\ ~isSubmitting']_vars

C15_Witness ==
    /\ returned = "true"
    /\ ~isOpen
    /\ inFlight = 0
    /\ InitialTuple(formData, errors, currentStep, isSubmitting)

\* C16: handleOpenModal from any state leaves the modal open and the form
\* state equal to the initial tuple.
C16_OpenModal ==
    [][handleOpenModal =>
        /\ isOpen'
        /\ formData' = InitialFormData
        /\ DOMAIN errors' = {}
        /\ currentStep' = 1
        /\ ~isSubmitting']_vars

\* A session opened while the submit of an earlier one is still awaited.
C16_Witness ==
    /\ isOpen
    /\ inFlight = 1
    /\ returned = "none"
    /\ InitialTuple(formData, errors, currentStep, isSubmitting)

\* C17: the keys of errors always belong to one step; keys are added only by
\* a validation (goToNextStep or a submit request) and then only for failing
\* fields of the validated step; a reset or a successful validation leaves
\* no key.
C17_ErrorKeysOfOneStep ==
    /\ [](\E step \in {1, 2, 3} : DOMAIN errors \subseteq StepFields(step))
    /\ [][/\ ~(DOMAIN errors' \subseteq DOMAIN errors) =>
                \/ GoToNextStep /\ DOMAIN errors' = FailingFields(currentStep, formData)
                \/ handleSubmitInvalid /\ DOMAIN errors' = FailingFields(3, formData)
          /\ (currentStep' > currentStep) => DOMAIN errors' = {}
          /\ (ResetForm \/ handleOpenModal) => DOMAIN errors' = {}]_vars

C17_Witness ==
    /\ currentStep = 2
    /\ DOMAIN errors = {"username", "password"}
    /\ errors["password"] # Null

\* C18: errors never has a key newsletter, and goToNextStep and a submit
\* request have the outcome they would have with the other newsletter value.
C18_NewsletterNotValidated ==
    /\ []("newsletter" \notin DOMAIN errors)
    /\ [][/\ GoToNextStep =>
                /\ errors' = filteredErrors(currentStep, FlipNewsletter(formData))
                /\ (currentStep' # currentStep) =>
                        validateStep(currentStep, FlipNewsletter(formData))
                /\ (currentStep' = currentStep /\ currentStep < 3) =>
                        ~validateStep(currentStep, FlipNewsletter(formData))
          /\ handleSubmitInvalid =>
                /\ errors' = filteredErrors(3, FlipNewsletter(formData))
                /\ ~validateStep(3, FlipNewsletter(formData))
          /\ handleSubmitStart =>
                /\ errors' = filteredErrors(3, FlipNewsletter(formData))
                /\ validateStep(3, FlipNewsletter(formData))]_vars

\* A submit accepted with newsletter left false.
C18_Witness ==
    /\ ~formData.newsletter
    /\ formData.theme = "Dark"
    /\ isSubmitting
    /\ inFlight = 1
    /\ DOMAIN errors = {}

\* C19: updateField(field, value) leaves every other field's value, every
\* other field's entry in errors, currentStep and isSubmitting as they were.
\* (The value written is the one the field holds afterwards.)
C19_UpdateFieldFrame ==
    [][\A field \in Fields :
        (modalRendered /\ updateField(field, formData'[field])) =>
            /\ \A g \in Fields \ {field} :
                  /\ formData'[g] = formData[g]
                  /\ (g \in DOMAIN errors') <=> (g \in DOMAIN errors)
                  /\ (g \in DOMAIN errors) => (errors'[g] = errors[g])
            /\ DOMAIN errors' \subseteq (DOMAIN errors) \cup {field}
            /\ UNCHANGED <<currentStep, isSubmitting>>]_vars

\* The password was edited after step 2 was refused on both fields: the
\* username message is still there.
C19_Witness ==
    /\ currentStep = 2
    /\ formData.username = <<"a", "b">>
    /\ formData.password = <<"1", "2", "3", "4", "5", "6">>
    /\ DOMAIN errors = {"username", "password"}
    /\ errors["username"] = "Username must be at least 3 characters"
    /\ errors["password"] = Null

\* C20: at most one finalize operation is awaited at any time.
C20_SingleFinalizeInFlight == inFlight <= 1

\* C21: the completion of a finalize operation of a session that was closed
\* does not change the session open now: isOpen, formData, errors and
\* currentStep are as before it.
C21_LateCompletionIgnored ==
    [][(isOpen /\ inFlight > 0 /\ stale = inFlight
            /\ (finalizeResolved \/ finalizeRejected))
        => UNCHANGED <<isOpen, formData, errors, currentStep>>]_vars

\* C22: with updateField applied only to the inputs of the current step and
\* submit requested only at step 3, a finalize operation is invoked only in
\* a state where fullName, email, username, password and theme all validate.
C22_FinalizeOnValidData ==
    [][(inFlight' > inFlight) =>
        \A f \in {"fullName", "email", "username", "password", "theme"} :
            FieldError(f, formData) = Null]_vars

C22_Witness ==
    /\ isOpen
    /\ currentStep = 3
    /\ isSubmitting
    /\ inFlight = 1
    /\ StepPasses(1, formData) /\ StepPasses(2, formData) /\ StepPasses(3, formData)

\* C23: currentStep never grows by more than one in a step; it grows only by
\* a goToNextStep whose validation of the step being left passes; and any
\* other change of it than by goToNextStep or goToPreviousStep sets it to 1.
\* Hence step k is reached only through successful validations of steps
\* 1 .. k-1, in that order, since the last reset.
C23_StepsInOrder ==
    [][/\ currentStep' <= currentStep + 1
       /\ (currentStep' > currentStep) =>
             (GoToNextStep /\ StepPasses(currentStep, formData))
       /\ (currentStep' # currentStep /\ ~GoToNextStep /\ ~GoToPreviousStep) =>
             currentStep' = 1]_vars

\* At step 3 with a step-1 field edited to an invalid value afterwards.
C23_Witness ==
    /\ isOpen
    /\ currentStep = 3
    /\ ~StepPasses(1, formData)
    /\ StepPasses(2, formData)

\* Every character of the text is white space (the empty text included).
AllBlank(text) == \A k \in 1..Len(text) : text[k] \in WhiteSpace

\* The length of the text from its first to its last visible character.
VisibleSpan(text) ==
    LET visible == {k \in 1..Len(text) : text[k] \notin WhiteSpace}
    IN  IF visible = {} THEN 0
        ELSE (CHOOSE k \in visible : \A j \in visible : j <= k)
             - (CHOOSE k \in visible : \A j \in visible : j >= k) + 1

\* The entry of a field in errors, Null when there is none.
Entry(errs, field) == IF field \in DOMAIN errs THEN errs[field] ELSE Null

\* C24: validateUsername and validatePassword answer "required" for every
\* text of white space only, whatever its length, and otherwise compare the
\* raw length with 3 and 6; validateFullName compares the trimmed length
\* with 2; the message is that of the first failing rule in the order
\* required, length, character set.
C24_ValidatorRules ==
    [][GoToNextStep =>
        /\ (currentStep = 1) =>
              Entry(errors', "fullName") =
                 (IF AllBlank(formData.fullName) THEN "Full name is required"
                  ELSE IF VisibleSpan(formData.fullName) < 2
                       THEN "Name must be at least 2 characters"
                  ELSE Null)
        /\ (currentStep = 2) =>
              /\ Entry(errors', "username") =
                    (IF AllBlank(formData.username) THEN "Username is required"
                     ELSE IF Len(formData.username) < 3
                          THEN "Username must be at least 3 characters"
                     ELSE IF \E k \in 1..Len(formData.username) :
                                formData.username[k] \notin WordChars
                          THEN "Username can only contain letters, numbers, and underscores"
                     ELSE Null)
              /\ Entry(errors', "password") =
                    (IF AllBlank(formData.password) THEN "Password is required"
                     ELSE IF Len(formData.password) < 6
                          THEN "Password must be at least 6 characters"
                     ELSE Null)]_vars

\* Six blanks: long enough for both length rules, refused as missing.
C24_Witness ==
    /\ currentStep = 2
    /\ formData.password = <<" ", " ", " ", " ", " ", " ">>
    /\ errors = [username |-> "Username is required",
                 password |-> "Password is required"]
====
